---- MODULE Spec2Model ----
(***************************************************************************)
(* The contact-management REST API (hw_14): signup, login, refresh_token,  *)
(* confirmed_email, request_email, the current-user resolver with its      *)
(* session cache, the avatar update, and the /contact routes over table    *)
(* "contacts".  Every request runs as an independently scheduled task; a   *)
(* handler of /auth and /users is split where it suspends on the database: *)
(* the step that issues its SELECT and the step that decides on the loaded *)
(* row and commits.  A handler of /contact is one step.                    *)
(***************************************************************************)
EXTENDS Integers, FiniteSets, Sequences, TLC

\* ---------------------------------------------------------------- bounds
Emails == {"a@x.com", "b@x.com"}
Passwords == {"pw1", "pw2"}
SignupPasswords == {"pw1"}
Urls == {"url1"}
Procs == {1, 2}
MaxRequests == 5
MaxTicks == 1
MaxOverlaps == 1
TickSeconds == 600
MaxContacts == 2
MaxLimit == 2
MaxContactRequests == 3

\* ------------------------------------------------------------- constants
ACCESS_EXPIRE_SECONDS == 900
REFRESH_EXPIRE_SECONDS == 604800
EMAIL_EXPIRE_SECONDS == 86400
CACHE_TTL == 300
NO_TTL == -1

HTTP_200_OK == 200
HTTP_201_CREATED == 201
HTTP_400_BAD_REQUEST == 400
HTTP_401_UNAUTHORIZED == 401
HTTP_404_NOT_FOUND == 404
HTTP_409_CONFLICT == 409
HTTP_500_INTERNAL_SERVER_ERROR == 500
UPCOMING_DAYS == 7

ACCOUNT_EXIST == "ACCOUNT_EXIST"
INCORRECT_EMAIL_PASSWORD == "INCORRECT_EMAIL_PASSWORD"
EMAIL_NOT_CONFIRMED == "EMAIL_NOT_CONFIRMED"
INVALID_REFRESH_TOKEN == "INVALID_REFRESH_TOKEN"
VERIFICATION_ERROR == "VERIFICATION_ERROR"
COULD_NOT_VALIDATE == "COULD_NOT_VALIDATE_CREDENTIALS"

Kinds == {"access", "refresh", "email"}

\* ------------------------------------------------------------ data model
\* A token is a signed claim set {subject, kind, issued-at, expiry}.
MkToken(s, k, t, life) ==
    [sub |-> s, kind |-> k, iat |-> t, exp |-> t + life, sig |-> "valid"]

\* None where a token is optional (User.refresh_token, absent response field).
NoToken == [sub |-> "", kind |-> "none", iat |-> 0, exp |-> 0, sig |-> "none"]

\* Tokens a client can fabricate without the secret key: any claims, bad signature.
ForgedTokens ==
    {[sub |-> "a@x.com", kind |-> k, iat |-> 0, exp |-> REFRESH_EXPIRE_SECONDS,
      sig |-> "forged"] : k \in {"access"}}

\* A calendar date of a common year: month and day.
Date(m, d) == [m |-> m, d |-> d]

NoDate == Date(0, 0)

\* Text columns are sequences of characters.
FirstNames == {<<"a", "n">>, <<"b", "o">>}
ContactEmails == {<<"n", "@">>, <<"b", "@">>}
Queries == {<<"n">>, <<"b", "o">>}
Birthdays == {Date(1, 2), Date(6, 15)}
Todays == {Date(6, 10), Date(12, 28)}
StartDay == Date(6, 10)
ContactIds == 1..MaxContacts

\* A row of table "contacts" (first_name stands for every plain text column); None
\* where a query finds no row.
NoContact == [id |-> 0, first_name |-> <<>>, email |-> <<>>, birthday |-> NoDate,
              user_id |-> 0]

\* The request bodies ContactCreate / ContactUpdate.
Bodies == [first_name : FirstNames, email : ContactEmails, birthday : Birthdays]

NoBody == [first_name |-> <<>>, email |-> <<>>, birthday |-> NoDate]

\* The AsyncSession that get_db hands to a route.
DbSession == [kind |-> "AsyncSession"]

\* A row of table "users"; None of get_user_by_email is NoUser.
NoUser == [id |-> 0, email |-> "", password |-> "", avatar |-> "",
           refresh_token |-> NoToken, confirmed |-> FALSE]

NoResp == [status |-> 0, detail |-> "", access_token |-> NoToken,
           refresh_token |-> NoToken, user |-> NoUser,
           contact |-> NoContact, contacts |-> <<>>, deleted |-> 0, committed |-> 0]

\* A key of the session cache: the pickled user, when it was written, its expiry.
NoEntry == [snap |-> NoUser, at |-> 0, exp |-> NO_TTL]

\* A request: its inputs, the row its SELECT loaded, and what was true when it started
\* (afterRotation, afterConfirm, lastAtStart, immediate) and when it wrote (raced).
IdleReq == [pc |-> "idle", op |-> "", email |-> "", password |-> "", token |-> NoToken,
            url |-> "", user |-> NoUser, fromCache |-> FALSE, age |-> 0,
            afterRotation |-> FALSE, afterConfirm |-> FALSE, lastAtStart |-> NoToken,
            cacheWasUp |-> TRUE, immediate |-> FALSE, raced |-> FALSE, contact_id |-> 0, body |-> NoBody, query |-> <<>>,
            skip |-> 0, limit |-> 0, resp |-> NoResp]

VARIABLES
    users,      \* table "users": email -> row (NoUser where there is no row)
    nextId,     \* the next value of the autoincrement primary key users.id
    req,        \* the request each task is handling (idle or between SELECT and commit)
    last,       \* the request answered most recently, with its response
    issued,     \* the tokens handed out (responses and delivered mails) that a client holds
    mailq,      \* emails with a queued send_email background task
    cache,      \* session cache: key -> entry
    cacheUp,    \* whether the cache backend is reachable
    now,        \* wall clock, seconds
    ticks,      \* number of clock advances so far
    nreq,       \* number of requests started so far
    overlapsLeft, \* how many more requests may start while another is in flight
    lastIssued, \* history: refresh token of the latest successful login/refresh
    rotated,    \* history: refresh tokens replaced by a different one on refresh
    confirmedOK, \* history: emails for which confirmed_email answered "Email confirmed"
    contacts,   \* table "contacts": id -> row (NoContact where there is no row)
    nextContactId, \* the next value of the autoincrement primary key contacts.id
    today,      \* date.today(), month and day
    removed     \* history: ids of the contacts that remove_contact has deleted

vars == <<users, nextId, req, last, issued, mailq, cache, cacheUp, now, ticks, nreq, overlapsLeft,
          lastIssued, rotated, confirmedOK, contacts, nextContactId, today, removed>>

\* What the /auth and /users routes never touch.
cvars == <<contacts, nextContactId, today, removed>>

\* -------------------------------------------------------- credential hasher
get_password_hash(p) == "hash:" \o p

verify_password(p, digest) == digest = get_password_hash(p)

\* ------------------------------------------------------------ token service
create_access_token(s) == MkToken(s, "access", now, ACCESS_EXPIRE_SECONDS)

create_refresh_token(s) == MkToken(s, "refresh", now, REFRESH_EXPIRE_SECONDS)

create_email_token(s) == MkToken(s, "email", now, EMAIL_EXPIRE_SECONDS)

\* decode(token_string, expected_kind): signature, then expiry, then kind.
decode(tok, kind) ==
    IF tok.sig # "valid" THEN [ok |-> FALSE, sub |-> "", err |-> "InvalidToken"]
    ELSE IF now > tok.exp THEN [ok |-> FALSE, sub |-> "", err |-> "ExpiredToken"]
    ELSE IF tok.kind # kind THEN [ok |-> FALSE, sub |-> "", err |-> "WrongTokenKind"]
    ELSE [ok |-> TRUE, sub |-> tok.sub, err |-> ""]

decode_refresh_token(tok) == decode(tok, "refresh")

get_email_from_token(tok) == decode(tok, "email")

decode_access_token(tok) == decode(tok, "access")

\* --------------------------------------------------------------- user store
get_user_by_email(email) == IF email \in Emails THEN users[email] ELSE NoUser

\* -------------------------------------------------------------- the requests
\* Tokens a client may present: anything ever handed out, or a forgery.
Presentable == issued \cup ForgedTokens

Fail(status, detail) == [NoResp EXCEPT !.status = status, !.detail = detail]

InFlight == {q \in Procs : req[q].pc # "idle"}

CanStart(p) ==
    /\ req[p].pc = "idle"
    /\ \A q \in Procs : q < p => req[q].pc # "idle"
    /\ nreq < MaxRequests
    /\ InFlight # {} => overlapsLeft > 0

Started ==
    /\ nreq' = nreq + 1
    /\ overlapsLeft' = IF InFlight # {} THEN overlapsLeft - 1 ELSE overlapsLeft

NewReq(op) == [IdleReq EXCEPT !.op = op, !.pc = "read", !.cacheWasUp = cacheUp]

\* The task of p sends resp and ends.
Respond(p, r, resp) ==
    /\ req' = [req EXCEPT ![p] = IdleReq]
    /\ last' = [r EXCEPT !.pc = "done", !.resp = resp]

\* The task of p suspends on its SELECT.
Suspend(p, r) ==
    /\ req' = [req EXCEPT ![p] = r]
    /\ UNCHANGED last

\* The state after startup, before any request.
Fresh ==
    /\ users = [e \in Emails |-> NoUser]
    /\ nextId = 1
    /\ req = [p \in Procs |-> IdleReq]
    /\ last = IdleReq
    /\ issued = {}
    /\ mailq = {}
    /\ cache = [e \in Emails |-> NoEntry]
    /\ cacheUp = TRUE
    /\ now = 0
    /\ ticks = 0
    /\ nreq = 0
    /\ lastIssued = [e \in Emails |-> NoToken]
    /\ rotated = {}
    /\ confirmedOK = {}
    /\ contacts = [i \in ContactIds |-> NoContact]
    /\ nextContactId = 1
    /\ removed = {}

Init == Fresh /\ overlapsLeft = MaxOverlaps /\ today = StartDay

\* The same start, with requests handled one at a time.
InitSerial == Fresh /\ overlapsLeft = 0 /\ today = StartDay

\* The row of a user who has signed up, confirmed the email and logged in at time 0.
LoggedIn(id, e) ==
    [id |-> id, email |-> e, password |-> get_password_hash("pw1"), avatar |-> "gravatar",
     refresh_token |-> MkToken(e, "refresh", 0, REFRESH_EXPIRE_SECONDS),
     confirmed |-> TRUE]

\* The state once both users have signed up, confirmed, logged in and called
\* GET /users/me, all at time 0: no contact yet, the clients holding the access
\* tokens of their logins, the cache holding both users, requests handled one at a
\* time. The request count and the last answer start afresh.
InitContacts ==
    /\ users = [e \in Emails |-> LoggedIn(IF e = "a@x.com" THEN 1 ELSE 2, e)]
    /\ nextId = 3
    /\ req = [p \in Procs |-> IdleReq]
    /\ last = IdleReq
    /\ issued = {MkToken(e, "access", 0, ACCESS_EXPIRE_SECONDS) : e \in Emails}
    /\ mailq = {}
    /\ cache = [e \in Emails |->
                   [snap |-> LoggedIn(IF e = "a@x.com" THEN 1 ELSE 2, e), at |-> 0,
                    exp |-> CACHE_TTL]]
    /\ cacheUp = TRUE
    /\ now = 0
    /\ ticks = 0
    /\ nreq = 0
    /\ overlapsLeft = 0
    /\ lastIssued = [e \in Emails |-> MkToken(e, "refresh", 0, REFRESH_EXPIRE_SECONDS)]
    /\ rotated = {}
    /\ confirmedOK = Emails
    /\ contacts = [i \in ContactIds |-> NoContact]
    /\ nextContactId = 1
    /\ today \in Todays
    /\ removed = {}

\* ------------------------------------------------------------------ signup
\* POST /auth/signup up to the existence check's SELECT.
SignupStart(p) ==
    /\ CanStart(p)
    /\ \E e \in Emails, pw \in SignupPasswords :
        Suspend(p, [NewReq("signup") EXCEPT
                       !.email = e, !.password = pw, !.user = get_user_by_email(e)])
    /\ Started
    /\ UNCHANGED cvars
    /\ UNCHANGED <<nextId, users, issued, mailq, cache, cacheUp, now, ticks,
                   lastIssued, rotated, confirmedOK>>

\* create_user: the row a signup inserts.
create_user(id, e, pwhash) ==
    [id |-> id, email |-> e, password |-> pwhash, avatar |-> "gravatar",
     refresh_token |-> NoToken, confirmed |-> FALSE]

\* POST /auth/signup from the existence check to the response.
SignupFinish(p) ==
    LET r == req[p] IN
    /\ r.pc = "read" /\ r.op = "signup"
    /\ IF r.user # NoUser
       THEN /\ Respond(p, r, Fail(HTTP_409_CONFLICT, ACCOUNT_EXIST))
            /\ UNCHANGED <<users, nextId, mailq>>
       ELSE IF users[r.email] # NoUser
       THEN \* the unique constraint on users.email rejects the INSERT
            /\ Respond(p, r, Fail(HTTP_500_INTERNAL_SERVER_ERROR, "IntegrityError"))
            /\ UNCHANGED <<users, nextId, mailq>>
       ELSE LET new_user == create_user(nextId, r.email, get_password_hash(r.password)) IN
            /\ users' = [users EXCEPT ![r.email] = new_user]
            /\ nextId' = nextId + 1
            /\ mailq' = mailq \cup {r.email}
            /\ Respond(p, r, [NoResp EXCEPT !.status = HTTP_201_CREATED,
                                            !.user = new_user])
    /\ UNCHANGED cvars
    /\ UNCHANGED <<issued, cache, cacheUp, now, ticks, nreq, overlapsLeft,
                   lastIssued, rotated, confirmedOK>>

\* What can go wrong in send_email.
MailFailures == {"none", "ConnectionErrors", "TokenError"}

\* send_email: the mail is sent, or ConnectionErrors is caught and printed, or any
\* other exception (create_email_token, the template, the message) leaves the function.
send_email(failure) ==
    IF failure = "none" THEN "sent"
    ELSE IF failure = "ConnectionErrors" THEN "caught"
    ELSE "raised"

\* Faulty variant: the route awaits send_email before it answers.
add_task_awaited(resp, outcome) ==
    IF outcome = "raised"
    THEN Fail(HTTP_500_INTERNAL_SERVER_ERROR, "Internal Server Error")
    ELSE resp

\* bt.add_task(send_email, ...): the task runs once the response has been sent, and
\* the response stands whatever the task does.
add_task(resp, outcome) == resp

\* Background task send_email of a signup or request_email.
SendEmail ==
    \E e \in mailq, failure \in MailFailures :
        LET outcome == send_email(failure) IN
        /\ mailq' = mailq \ {e}
        /\ issued' = IF outcome = "sent" THEN issued \cup {create_email_token(e)}
                      ELSE issued
        /\ last' = IF last.op \in {"signup", "request_email"} /\ last.email = e
                    THEN [last EXCEPT !.resp = add_task(last.resp, outcome)]
                    ELSE last
        /\ UNCHANGED cvars
        /\ UNCHANGED <<nextId, users, req, cache, cacheUp, now, ticks, nreq, overlapsLeft,
                       lastIssued, rotated, confirmedOK>>

\* ------------------------------------------------------------------- login
\* Faulty variant: the new token is returned but never written to the row.
update_token_not_committed(email, token) == users

\* update_token: user.refresh_token = token; commit.
update_token(email, token) == [users EXCEPT ![email].refresh_token = token]

\* The row the request loaded is no longer in the table: its UPDATE matches no row
\* and the commit raises.
RowGone(r) == r.user # NoUser /\ users[r.user.email].id # r.user.id

\* login: "if not user or not auth_service.verify_password(body.password, user.password)"
login_bad_credentials(user, password) ==
    user = NoUser \/ ~verify_password(password, user.password)

\* Faulty variant: the confirmed flag is not looked at.
login_not_confirmed_ignored(user) == FALSE

\* login: "if not user.confirmed"
login_not_confirmed(user) == ~user.confirmed

\* POST /auth/login up to the SELECT of the user.
LoginStart(p) ==
    /\ CanStart(p)
    /\ \E e \in Emails, pw \in Passwords :
        Suspend(p, [NewReq("login") EXCEPT
                       !.email = e, !.password = pw, !.user = get_user_by_email(e),
                       !.afterConfirm = (e \in confirmedOK)])
    /\ Started
    /\ UNCHANGED cvars
    /\ UNCHANGED <<nextId, users, issued, mailq, cache, cacheUp, now, ticks,
                   lastIssued, rotated, confirmedOK>>

\* POST /auth/login from the password check to the response.
LoginFinish(p) ==
    LET r == req[p]
        access_token == create_access_token(r.user.email)
        refresh_token == create_refresh_token(r.user.email)
    IN
    /\ r.pc = "read" /\ r.op = "login"
    /\ IF login_bad_credentials(r.user, r.password)
       THEN /\ Respond(p, r, Fail(HTTP_401_UNAUTHORIZED, INCORRECT_EMAIL_PASSWORD))
            /\ UNCHANGED <<users, issued, lastIssued>>
       ELSE IF login_not_confirmed(r.user)
       THEN /\ Respond(p, r, Fail(HTTP_401_UNAUTHORIZED, EMAIL_NOT_CONFIRMED))
            /\ UNCHANGED <<users, issued, lastIssued>>
       ELSE IF RowGone(r)
       THEN /\ Respond(p, r, Fail(HTTP_500_INTERNAL_SERVER_ERROR, "StaleDataError"))
            /\ UNCHANGED <<users, issued, lastIssued>>
       ELSE /\ users' = update_token(r.user.email, refresh_token)
            /\ issued' = issued \cup {access_token, refresh_token}
            /\ lastIssued' = [lastIssued EXCEPT ![r.user.email] = refresh_token]
            /\ Respond(p, r, [NoResp EXCEPT !.status = HTTP_201_CREATED,
                                            !.access_token = access_token,
                                            !.refresh_token = refresh_token])
    /\ UNCHANGED cvars
    /\ UNCHANGED <<nextId, mailq, cache, cacheUp, now, ticks, nreq, overlapsLeft, rotated, confirmedOK>>

\* ----------------------------------------------------------- refresh_token
\* Faulty variant: the route decodes with the access-token decoder.
refresh_decode_as_access(tok) == decode_access_token(tok)

\* refresh_token: "email = await auth_service.decode_refresh_token(token)"
refresh_decode(tok) == decode_refresh_token(tok)

\* Faulty variant: the comparison with the stored token is left out.
refresh_rejected_none_only(user, token) == user = NoUser

\* Faulty variant: the presented token is compared with the token stored at the time
\* of the write, as a compare-and-swap would.
refresh_rejected_cas(user, token) ==
    user = NoUser \/ users[user.email].refresh_token # token

\* refresh_token: "if user is None or user.refresh_token != token"
refresh_rejected(user, token) == user = NoUser \/ user.refresh_token # token

\* Faulty variant: the rejected call leaves the stored token alone.
refresh_revoke_skipped(user) == users

\* refresh_token, on rejection: "await repositories_users.update_token(user, None, db)"
refresh_revoke(user) == update_token(user.email, NoToken)

\* tok is the refresh token of the answer sent last, a successful login or refresh,
\* and no other request is being handled.
FollowsItsIssue(tok) ==
    /\ InFlight = {}
    /\ last.pc = "done" /\ last.op \in {"login", "refresh"}
    /\ last.resp.status \in {HTTP_200_OK, HTTP_201_CREATED}
    /\ last.resp.refresh_token = tok

\* GET /auth/refresh_token up to the SELECT of the user.
RefreshStart(p) ==
    /\ CanStart(p)
    /\ \E tok \in Presentable :
        LET d == refresh_decode(tok)
            r == [NewReq("refresh") EXCEPT !.token = tok,
                                           !.afterRotation = (tok \in rotated),
                                           !.immediate = FollowsItsIssue(tok)]
        IN
        IF d.ok
        THEN Suspend(p, [r EXCEPT !.email = d.sub, !.user = get_user_by_email(d.sub),
                                  !.lastAtStart = lastIssued[d.sub]])
        ELSE Respond(p, r, Fail(HTTP_401_UNAUTHORIZED, COULD_NOT_VALIDATE))
    /\ Started
    /\ UNCHANGED cvars
    /\ UNCHANGED <<nextId, users, issued, mailq, cache, cacheUp, now, ticks,
                   lastIssued, rotated, confirmedOK>>

\* GET /auth/refresh_token from the comparison with the stored token to the response.
RefreshFinish(p) ==
    LET r0 == req[p]
        \* the stored token is no longer the one the SELECT loaded
        r == [r0 EXCEPT !.raced = (r0.user # NoUser /\
                                   users[r0.user.email].refresh_token # r0.user.refresh_token)]
        access_token == create_access_token(r.email)
        refresh_token == create_refresh_token(r.email)
    IN
    /\ r0.pc = "read" /\ r0.op = "refresh"
    /\ IF refresh_rejected(r.user, r.token)
       THEN IF r.user = NoUser
            THEN \* update_token(None, None, db): attribute assignment on None raises
                 /\ Respond(p, r, Fail(HTTP_500_INTERNAL_SERVER_ERROR, "AttributeError"))
                 /\ UNCHANGED <<users, issued, lastIssued, rotated>>
            ELSE IF RowGone(r)
            THEN /\ Respond(p, r, Fail(HTTP_500_INTERNAL_SERVER_ERROR, "StaleDataError"))
                 /\ UNCHANGED <<users, issued, lastIssued, rotated>>
            ELSE /\ users' = refresh_revoke(r.user)
                 /\ Respond(p, r, Fail(HTTP_401_UNAUTHORIZED, INVALID_REFRESH_TOKEN))
                 /\ UNCHANGED <<issued, lastIssued, rotated>>
       ELSE IF RowGone(r)
       THEN /\ Respond(p, r, Fail(HTTP_500_INTERNAL_SERVER_ERROR, "StaleDataError"))
            /\ UNCHANGED <<users, issued, lastIssued, rotated>>
       ELSE /\ users' = update_token(r.user.email, refresh_token)
            /\ issued' = issued \cup {access_token, refresh_token}
            /\ lastIssued' = [lastIssued EXCEPT ![r.email] = refresh_token]
            /\ rotated' = IF refresh_token # r.token THEN rotated \cup {r.token} ELSE rotated
            /\ Respond(p, r, [NoResp EXCEPT !.status = HTTP_200_OK,
                                            !.access_token = access_token,
                                            !.refresh_token = refresh_token])
    /\ UNCHANGED cvars
    /\ UNCHANGED <<nextId, mailq, cache, cacheUp, now, ticks, nreq, overlapsLeft, confirmedOK>>

\* --------------------------------------------------------- confirmed_email
\* confirmed_email: "email = await auth_service.get_email_from_token(token)"
confirm_decode(tok) == get_email_from_token(tok)

\* GET /auth/confirmed_email/{token} up to the SELECT of the user.
ConfirmStart(p) ==
    /\ CanStart(p)
    /\ \E tok \in Presentable :
        LET d == confirm_decode(tok)
            r == [NewReq("confirm") EXCEPT !.token = tok]
        IN
        IF d.ok
        THEN Suspend(p, [r EXCEPT !.email = d.sub, !.user = get_user_by_email(d.sub)])
        ELSE Respond(p, r, Fail(HTTP_401_UNAUTHORIZED, COULD_NOT_VALIDATE))
    /\ Started
    /\ UNCHANGED cvars
    /\ UNCHANGED <<nextId, users, issued, mailq, cache, cacheUp, now, ticks,
                   lastIssued, rotated, confirmedOK>>

\* repository confirmed_email: user.confirmed = True; commit.
confirmed_email(email) == [users EXCEPT ![email].confirmed = TRUE]

\* GET /auth/confirmed_email/{token} from the None check to the response.
ConfirmFinish(p) ==
    LET r == req[p] IN
    /\ r.pc = "read" /\ r.op = "confirm"
    /\ IF r.user = NoUser
       THEN /\ Respond(p, r, Fail(HTTP_400_BAD_REQUEST, VERIFICATION_ERROR))
            /\ UNCHANGED <<users, confirmedOK>>
       ELSE IF r.user.confirmed
       THEN /\ Respond(p, r, Fail(HTTP_200_OK, "Your email is already confirmed"))
            /\ UNCHANGED <<users, confirmedOK>>
       ELSE IF users[r.email] = NoUser
       THEN \* the row is gone: user.confirmed = True on None raises
            /\ Respond(p, r, Fail(HTTP_500_INTERNAL_SERVER_ERROR, "AttributeError"))
            /\ UNCHANGED <<users, confirmedOK>>
       ELSE /\ users' = confirmed_email(r.email)
            /\ confirmedOK' = confirmedOK \cup {r.email}
            /\ Respond(p, r, Fail(HTTP_200_OK, "Email confirmed"))
    /\ UNCHANGED cvars
    /\ UNCHANGED <<nextId, issued, mailq, cache, cacheUp, now, ticks, nreq, overlapsLeft, lastIssued, rotated>>

\* POST /auth/request_email: one SELECT, no write.
RequestEmail(p) ==
    /\ CanStart(p)
    /\ \E e \in Emails :
        LET user == get_user_by_email(e)
            r == [NewReq("request_email") EXCEPT !.email = e, !.user = user]
        IN
        IF user # NoUser /\ user.confirmed
        THEN /\ Respond(p, r, Fail(HTTP_200_OK, "Your email is already confirmed"))
             /\ UNCHANGED mailq
        ELSE /\ mailq' = IF user # NoUser THEN mailq \cup {user.email} ELSE mailq
             /\ Respond(p, r, Fail(HTTP_200_OK, "Check your email for confirmation."))
    /\ Started
    /\ UNCHANGED cvars
    /\ UNCHANGED <<nextId, users, issued, cache, cacheUp, now, ticks,
                   lastIssued, rotated, confirmedOK>>

\* ------------------------------------------------------------ session cache
\* A key is there until its expiry; a key without expiry stays.
Live(c, k) == c[k] # NoEntry /\ (c[k].exp = NO_TTL \/ now < c[k].exp)

\* cache.set(key, value): the value replaces the key and any expiry it had.
cache_set(c, k, user) == [c EXCEPT ![k] = [snap |-> user, at |-> now, exp |-> NO_TTL]]

\* cache.expire(key, seconds)
cache_expire(c, k, seconds) ==
    IF c[k] = NoEntry THEN c ELSE [c EXCEPT ![k].exp = now + seconds]

\* ------------------------------------------------------ current-user resolver
\* resolve(bearer_token) against cache c, reachable or not: the user or a rejection.
resolve(tok, c, up) ==
    LET d == decode_access_token(tok) IN
    IF ~d.ok THEN [ok |-> FALSE, user |-> NoUser, fromCache |-> FALSE, age |-> 0]
    ELSE IF up /\ Live(c, d.sub)
    THEN [ok |-> TRUE, user |-> c[d.sub].snap, fromCache |-> TRUE, age |-> now - c[d.sub].at]
    ELSE LET user == get_user_by_email(d.sub) IN
         [ok |-> user # NoUser, user |-> user, fromCache |-> FALSE, age |-> 0]

\* The cache after resolve(bearer_token): populated with TTL 300 on a miss that finds the user.
resolve_cache(tok, c, up) ==
    LET res == resolve(tok, c, up) IN
    IF res.ok /\ ~res.fromCache /\ up
    THEN cache_expire(cache_set(c, res.user.email, res.user), res.user.email, CACHE_TTL)
    ELSE c

\* GET /users/me: the resolver's user is the response.
Me(p) ==
    /\ CanStart(p)
    /\ \E tok \in Presentable :
        LET res == resolve(tok, cache, cacheUp)
            r == [NewReq("me") EXCEPT !.token = tok, !.user = res.user,
                                      !.fromCache = res.fromCache, !.age = res.age]
        IN
        /\ cache' = resolve_cache(tok, cache, cacheUp)
        /\ IF res.ok
           THEN Respond(p, r, [NoResp EXCEPT !.status = HTTP_200_OK, !.user = res.user])
           ELSE Respond(p, r, Fail(HTTP_401_UNAUTHORIZED, COULD_NOT_VALIDATE))
    /\ Started
    /\ UNCHANGED cvars
    /\ UNCHANGED <<nextId, users, issued, mailq, cacheUp, now, ticks,
                   lastIssued, rotated, confirmedOK>>

\* PATCH /users/avatar up to the upload: the resolver has run.
AvatarStart(p) ==
    /\ CanStart(p)
    /\ \E tok \in Presentable, url \in Urls :
        LET res == resolve(tok, cache, cacheUp)
            r == [NewReq("avatar") EXCEPT !.token = tok, !.url = url, !.user = res.user,
                                          !.email = res.user.email,
                                          !.fromCache = res.fromCache, !.age = res.age]
        IN
        /\ cache' = resolve_cache(tok, cache, cacheUp)
        /\ IF res.ok
           THEN Suspend(p, r)
           ELSE Respond(p, r, Fail(HTTP_401_UNAUTHORIZED, COULD_NOT_VALIDATE))
    /\ Started
    /\ UNCHANGED cvars
    /\ UNCHANGED <<nextId, users, issued, mailq, cacheUp, now, ticks,
                   lastIssued, rotated, confirmedOK>>

\* Faulty variant: the snapshot is stored under another user's key.
avatar_cache_key_other(user) == CHOOSE k \in Emails : k # user.email

\* The key of "auth_service.cache.set(user.email, pickle.dumps(user))"
avatar_cache_key(user) == user.email

\* Faulty variant: the commit writes the confirmed column back to its default.
update_avatar_url_resets(email, url) ==
    [users EXCEPT ![email].avatar = url, ![email].confirmed = FALSE]

\* update_avatar_url: user.avatar = url; commit.
update_avatar_url(email, url) == [users EXCEPT ![email].avatar = url]

\* PATCH /users/avatar from update_avatar_url to the response.
AvatarFinish(p) ==
    LET r == req[p]
        user == [users[r.email] EXCEPT !.avatar = r.url]
        rr == [r EXCEPT !.cacheWasUp = cacheUp]
    IN
    /\ r.pc = "read" /\ r.op = "avatar"
    /\ IF users[r.email] = NoUser
       THEN \* update_avatar_url: user.avatar = url on None raises
            /\ Respond(p, rr, Fail(HTTP_500_INTERNAL_SERVER_ERROR, "AttributeError"))
            /\ UNCHANGED <<users, cache, cacheUp>>
       ELSE /\ users' = update_avatar_url(r.email, r.url)
            /\ IF ~cacheUp
               THEN \* cache.set raises: the backend is unreachable
                    /\ Respond(p, rr, Fail(HTTP_500_INTERNAL_SERVER_ERROR, "ConnectionError"))
                    /\ UNCHANGED <<cache, cacheUp>>
               ELSE \/ /\ cache' = cache_expire(cache_set(cache, avatar_cache_key(user), user),
                                                avatar_cache_key(user), CACHE_TTL)
                       /\ Respond(p, rr, [NoResp EXCEPT !.status = HTTP_200_OK,
                                                        !.user = user])
                       /\ UNCHANGED cacheUp
                    \/ \* the backend is lost after cache.set: cache.expire raises
                       /\ cache' = cache_set(cache, avatar_cache_key(user), user)
                       /\ cacheUp' = FALSE
                       /\ Respond(p, [rr EXCEPT !.cacheWasUp = FALSE], Fail(HTTP_500_INTERNAL_SERVER_ERROR,
                                              "ConnectionError"))
    /\ UNCHANGED cvars
    /\ UNCHANGED <<nextId, issued, mailq, now, ticks, nreq, overlapsLeft, lastIssued, rotated, confirmedOK>>

\* ---------------------------------------------------------------- calendar
DaysInMonth == <<31, 28, 31, 30, 31, 30, 31, 31, 30, 31, 30, 31>>

AllDates == {dt \in [m : 1..12, d : 1..31] : dt.d <= DaysInMonth[dt.m]}

RECURSIVE DaysBefore(_)
DaysBefore(m) == IF m = 1 THEN 0 ELSE DaysInMonth[m - 1] + DaysBefore(m - 1)

\* The day of the year of a date, and the date of a day of the year.
Ordinal(dt) == DaysBefore(dt.m) + dt.d

FromOrdinal(n) == CHOOSE dt \in AllDates : Ordinal(dt) = n

\* dt + timedelta(days=k); past 31 December the date is in January of the next year.
timedelta_add(dt, k) == FromOrdinal(((Ordinal(dt) - 1 + k) % Ordinal(Date(12, 31))) + 1)

\* strftime("%m-%d") and to_char(.., 'MM-DD'): two digits of the month, a dash, two
\* digits of the day. The dash is the same third character of every such string and
\* is left out.
strftime_md(dt) == <<dt.m \div 10, dt.m % 10, dt.d \div 10, dt.d % 10>>

\* s <= t on strings, character by character.
RECURSIVE StrLE(_, _)
StrLE(s, t) ==
    IF s = <<>> THEN TRUE
    ELSE IF t = <<>> THEN FALSE
    ELSE IF Head(s) < Head(t) THEN TRUE
    ELSE IF Head(s) > Head(t) THEN FALSE
    ELSE StrLE(Tail(s), Tail(t))

\* column.contains(q): q is a substring of s.
Contains(s, q) ==
    \E i \in 0..Len(s) : i + Len(q) <= Len(s) /\ SubSeq(s, i + 1, i + Len(q)) = q

\* ---------------------------------------------------------- contact repository
\* The rows of table "contacts".
Stored == {contacts[i] : i \in ContactIds} \ {NoContact}

\* result.scalars().all(): the rows of a query, in the order of their ids.
RECURSIVE ById(_)
ById(S) ==
    IF S = {} THEN <<>>
    ELSE LET c == CHOOSE x \in S : \A y \in S : x.id <= y.id
         IN <<c>> \o ById(S \ {c})

Raised(err) == [ok |-> FALSE, err |-> err, rows |-> <<>>]

\* get_all_contacts(limit, offset, user, session): user.id is read from its third
\* argument and the query is executed on its fourth.
get_all_contacts(limit, offset, user, session) ==
    IF "id" \notin DOMAIN user THEN Raised("AttributeError")
    ELSE IF session # DbSession THEN Raised("AttributeError")
    ELSE LET all == ById({c \in Stored : c.user_id = user.id})
             upto == IF offset + limit < Len(all) THEN offset + limit ELSE Len(all)
         IN [ok |-> TRUE, err |-> "", rows |-> SubSeq(all, offset + 1, upto)]

\* The row with primary key contact_id, or None.
Row(contact_id) == IF contact_id \in ContactIds THEN contacts[contact_id] ELSE NoContact

\* get_contact: filter(Contact.id == contact_id, Contact.user_id == user.id).first()
get_contact(contact_id, session, user) ==
    IF Row(contact_id) # NoContact /\ Row(contact_id).user_id = user.id
    THEN Row(contact_id) ELSE NoContact

\* The unique constraint on contacts.email: another row holds the email.
EmailTaken(email, contact_id) ==
    \E c \in Stored : c.id # contact_id /\ c.email = email

\* create_contact: Contact(**contact.dict(), user_id=user.id)
create_contact(id, body, user) ==
    [id |-> id, first_name |-> body.first_name, email |-> body.email,
     birthday |-> body.birthday, user_id |-> user.id]

\* update_contact: the row its query selects.
update_contact_query(contact_id, user) ==
    IF Row(contact_id) # NoContact /\ Row(contact_id).user_id = user.id
    THEN Row(contact_id) ELSE NoContact

\* update_contact: "for key, value in body.dict().items(): setattr(contact, key, value)"
update_contact_setattr(contact, body) ==
    [contact EXCEPT !.first_name = body.first_name, !.email = body.email,
                    !.birthday = body.birthday]

\* update_contact: the contact it returns (None when its query finds no row), the
\* table after its commit, and the exception the commit raised.
update_contact(contact_id, body, user) ==
    LET contact == update_contact_query(contact_id, user)
        new == update_contact_setattr(contact, body)
    IN
    IF contact = NoContact
    THEN [contact |-> NoContact, table |-> contacts, err |-> "", committed |-> 0]
    ELSE IF EmailTaken(new.email, contact.id)
    THEN [contact |-> NoContact, table |-> contacts, err |-> "IntegrityError",
          committed |-> 0]
    ELSE [contact |-> new, table |-> [contacts EXCEPT ![contact.id] = new], err |-> "",
          committed |-> 1]

\* Faulty variant: the query of remove_contact does not filter by owner.
remove_contact_query_any_owner(contact_id, user) == Row(contact_id)

\* remove_contact: the row its query selects.
remove_contact_query(contact_id, user) ==
    IF Row(contact_id) # NoContact /\ Row(contact_id).user_id = user.id
    THEN Row(contact_id) ELSE NoContact

\* Faulty variant: the contact is returned but the row is not deleted.
remove_contact_keeps_row(contact_id, user) ==
    [contact |-> remove_contact_query(contact_id, user), table |-> contacts,
     deleted |-> 0, committed |-> 0]

\* remove_contact: the contact it returns (None when its query finds no row), the
\* table after its commit, and how often it called db.delete and db.commit.
remove_contact(contact_id, user) ==
    LET contact == remove_contact_query(contact_id, user) IN
    IF contact = NoContact
    THEN [contact |-> NoContact, table |-> contacts, deleted |-> 0, committed |-> 0]
    ELSE [contact |-> contact, table |-> [contacts EXCEPT ![contact.id] = NoContact],
          deleted |-> 1, committed |-> 1]

\* search_contacts: first_name or email contains the query, and the row is the user's.
search_contacts(query, user) ==
    ById({c \in Stored : /\ Contains(c.first_name, query) \/ Contains(c.email, query)
                         /\ c.user_id = user.id})

\* get_upcoming_birthdays: 'MM-DD' of the birthday lies between 'MM-DD' of today and
\* 'MM-DD' of today + 7 days, as strings.
get_upcoming_birthdays(user) ==
    LET upcoming == timedelta_add(today, UPCOMING_DAYS)
        today_str == strftime_md(today)
        upcoming_str == strftime_md(upcoming)
    IN ById({c \in Stored : /\ c.user_id = user.id
                            /\ StrLE(today_str, strftime_md(c.birthday))
                            /\ StrLE(strftime_md(c.birthday), upcoming_str)})

\* -------------------------------------------------------------- contact routes
\* What no contact route changes.
ContactFrame ==
    UNCHANGED <<nextId, users, issued, mailq, cacheUp, now, ticks, lastIssued, rotated,
                confirmedOK, today>>

ContactReq(op, tok, res) ==
    [NewReq(op) EXCEPT !.token = tok, !.user = res.user, !.email = res.user.email,
                       !.fromCache = res.fromCache, !.age = res.age]

Unauthorized == Fail(HTTP_401_UNAUTHORIZED, COULD_NOT_VALIDATE)

\* A request to a /contact route arrives.
CanStartContact(p) == CanStart(p) /\ nreq < MaxContactRequests

\* POST /contact/
CreateContact(p) ==
    /\ CanStartContact(p)
    /\ \E tok \in Presentable, body \in Bodies :
        LET res == resolve(tok, cache, cacheUp)
            r == [ContactReq("create_contact", tok, res) EXCEPT !.body = body]
            db_contact == create_contact(nextContactId, body, res.user)
        IN
        /\ res.ok => nextContactId <= MaxContacts
        /\ cache' = resolve_cache(tok, cache, cacheUp)
        /\ IF ~res.ok
           THEN /\ Respond(p, r, Unauthorized)
                /\ UNCHANGED <<contacts, nextContactId>>
           ELSE IF EmailTaken(body.email, nextContactId)
           THEN \* the INSERT is rejected; the value of the id sequence is used up
                /\ Respond(p, r, Fail(HTTP_500_INTERNAL_SERVER_ERROR, "IntegrityError"))
                /\ nextContactId' = nextContactId + 1
                /\ UNCHANGED contacts
           ELSE /\ contacts' = [contacts EXCEPT ![nextContactId] = db_contact]
                /\ nextContactId' = nextContactId + 1
                /\ Respond(p, r, [NoResp EXCEPT !.status = HTTP_201_CREATED,
                                                !.contact = db_contact,
                                                !.committed = 1])
    /\ Started
    /\ ContactFrame
    /\ UNCHANGED removed

\* GET /contacts/all: "get_all_contacts(skip, limit, db, user)"
ReadContacts(p) ==
    /\ CanStartContact(p)
    /\ \E tok \in Presentable, skip \in 0..1, limit \in 1..MaxLimit :
        LET res == resolve(tok, cache, cacheUp)
            r == [ContactReq("read_contacts", tok, res) EXCEPT !.skip = skip,
                                                               !.limit = limit]
            result == get_all_contacts(skip, limit, DbSession, res.user)
        IN
        /\ cache' = resolve_cache(tok, cache, cacheUp)
        /\ IF ~res.ok THEN Respond(p, r, Unauthorized)
           ELSE IF ~result.ok
           THEN Respond(p, r, Fail(HTTP_500_INTERNAL_SERVER_ERROR, result.err))
           ELSE Respond(p, r, [NoResp EXCEPT !.status = HTTP_201_CREATED,
                                             !.contacts = result.rows])
    /\ Started
    /\ ContactFrame
    /\ UNCHANGED <<contacts, nextContactId, removed>>

\* GET /contact/{contact_id}
ReadContact(p) ==
    /\ CanStartContact(p)
    /\ \E tok \in Presentable, contact_id \in ContactIds :
        LET res == resolve(tok, cache, cacheUp)
            r == [ContactReq("read_contact", tok, res) EXCEPT !.contact_id = contact_id]
            contact == get_contact(contact_id, DbSession, res.user)
        IN
        /\ cache' = resolve_cache(tok, cache, cacheUp)
        /\ IF ~res.ok THEN Respond(p, r, Unauthorized)
           ELSE IF contact = NoContact
           THEN Respond(p, r, Fail(HTTP_404_NOT_FOUND, "Contact not found"))
           ELSE Respond(p, r, [NoResp EXCEPT !.status = HTTP_201_CREATED,
                                             !.contact = contact])
    /\ Started
    /\ ContactFrame
    /\ UNCHANGED <<contacts, nextContactId, removed>>

\* PUT /contact/{contact_id}
UpdateContact(p) ==
    /\ CanStartContact(p)
    /\ \E tok \in Presentable, contact_id \in ContactIds, body \in Bodies :
        LET res == resolve(tok, cache, cacheUp)
            r == [ContactReq("update_contact", tok, res) EXCEPT
                      !.contact_id = contact_id, !.body = body]
            result == update_contact(contact_id, body, res.user)
        IN
        /\ cache' = resolve_cache(tok, cache, cacheUp)
        /\ IF ~res.ok
           THEN /\ Respond(p, r, Unauthorized)
                /\ UNCHANGED contacts
           ELSE /\ contacts' = result.table
                /\ IF result.err # ""
                   THEN Respond(p, r, Fail(HTTP_500_INTERNAL_SERVER_ERROR, result.err))
                   ELSE IF result.contact = NoContact
                   THEN Respond(p, r, Fail(HTTP_404_NOT_FOUND, "Contact not found"))
                   ELSE Respond(p, r, [NoResp EXCEPT !.status = HTTP_200_OK,
                                                     !.contact = result.contact,
                                                     !.committed = result.committed])
    /\ Started
    /\ ContactFrame
    /\ UNCHANGED <<nextContactId, removed>>

\* DELETE /contact/{contact_id}
RemoveContact(p) ==
    /\ CanStartContact(p)
    /\ \E tok \in Presentable, contact_id \in ContactIds :
        LET res == resolve(tok, cache, cacheUp)
            r == [ContactReq("remove_contact", tok, res) EXCEPT !.contact_id = contact_id]
            result == remove_contact(contact_id, res.user)
        IN
        /\ cache' = resolve_cache(tok, cache, cacheUp)
        /\ IF ~res.ok
           THEN /\ Respond(p, r, Unauthorized)
                /\ UNCHANGED <<contacts, removed>>
           ELSE /\ contacts' = result.table
                /\ IF result.contact = NoContact
                   THEN /\ Respond(p, r, Fail(HTTP_404_NOT_FOUND, "Contact not found"))
                        /\ UNCHANGED removed
                   ELSE /\ removed' = removed \cup {result.contact.id}
                        /\ Respond(p, r, [NoResp EXCEPT !.status = HTTP_200_OK,
                                                        !.contact = result.contact,
                                                        !.deleted = result.deleted,
                                                        !.committed = result.committed])
    /\ Started
    /\ ContactFrame
    /\ UNCHANGED nextContactId

\* GET /contacts/search/
SearchContacts(p) ==
    /\ CanStartContact(p)
    /\ \E tok \in Presentable, query \in Queries :
        LET res == resolve(tok, cache, cacheUp)
            r == [ContactReq("search_contacts", tok, res) EXCEPT !.query = query]
        IN
        /\ cache' = resolve_cache(tok, cache, cacheUp)
        /\ IF ~res.ok THEN Respond(p, r, Unauthorized)
           ELSE Respond(p, r, [NoResp EXCEPT !.status = HTTP_201_CREATED,
                                             !.contacts = search_contacts(query, res.user)])
    /\ Started
    /\ ContactFrame
    /\ UNCHANGED <<contacts, nextContactId, removed>>

\* GET /contacts/upcoming_birthdays/
UpcomingBirthdays(p) ==
    /\ CanStartContact(p)
    /\ \E tok \in Presentable :
        LET res == resolve(tok, cache, cacheUp)
            r == ContactReq("upcoming_birthdays", tok, res)
        IN
        /\ cache' = resolve_cache(tok, cache, cacheUp)
        /\ IF ~res.ok THEN Respond(p, r, Unauthorized)
           ELSE Respond(p, r, [NoResp EXCEPT !.status = HTTP_200_OK,
                                             !.contacts = get_upcoming_birthdays(res.user)])
    /\ Started
    /\ ContactFrame
    /\ UNCHANGED <<contacts, nextContactId, removed>>

\* ------------------------------------------------------------- environment
\* Time passes; keys past their expiry leave the cache.
Tick ==
    /\ ticks < MaxTicks
    /\ now' = now + TickSeconds
    /\ ticks' = ticks + 1
    /\ cache' = [k \in Emails |->
                    IF cache[k] # NoEntry /\ cache[k].exp # NO_TTL
                       /\ now + TickSeconds >= cache[k].exp
                    THEN NoEntry ELSE cache[k]]
    /\ UNCHANGED cvars
    /\ UNCHANGED <<nextId, users, req, last, issued, mailq, cacheUp, nreq, overlapsLeft,
                   lastIssued, rotated, confirmedOK>>

\* The cache backend becomes unreachable.
CacheDown ==
    /\ cacheUp
    /\ cacheUp' = FALSE
    /\ UNCHANGED cvars
    /\ UNCHANGED <<nextId, users, req, last, issued, mailq, cache, now, ticks, nreq, overlapsLeft,
                   lastIssued, rotated, confirmedOK>>

\* The cache backend is reachable again, with the keys it held.
CacheBack ==
    /\ ~cacheUp
    /\ cacheUp' = TRUE
    /\ UNCHANGED cvars
    /\ UNCHANGED <<nextId, users, req, last, issued, mailq, cache, now, ticks, nreq, overlapsLeft,
                   lastIssued, rotated, confirmedOK>>

\* External administrative action: a row of table "users" is deleted.
DeleteUser ==
    /\ \E e \in Emails :
        /\ users[e] # NoUser
        /\ users' = [users EXCEPT ![e] = NoUser]
    /\ UNCHANGED cvars
    /\ UNCHANGED <<nextId, req, last, issued, mailq, cache, cacheUp, now, ticks, nreq, overlapsLeft,
                   lastIssued, rotated, confirmedOK>>

\* ----------------------------------------------------------- specifications
\* The whole service.
Next ==
    \/ \E p \in Procs : SignupStart(p)
    \/ \E p \in Procs : SignupFinish(p)
    \/ SendEmail
    \/ \E p \in Procs : LoginStart(p)
    \/ \E p \in Procs : LoginFinish(p)
    \/ \E p \in Procs : RefreshStart(p)
    \/ \E p \in Procs : RefreshFinish(p)
    \/ \E p \in Procs : ConfirmStart(p)
    \/ \E p \in Procs : ConfirmFinish(p)
    \/ \E p \in Procs : RequestEmail(p)
    \/ \E p \in Procs : Me(p)
    \/ \E p \in Procs : AvatarStart(p)
    \/ \E p \in Procs : AvatarFinish(p)
    \/ \E p \in Procs : CreateContact(p)
    \/ \E p \in Procs : ReadContacts(p)
    \/ \E p \in Procs : ReadContact(p)
    \/ \E p \in Procs : UpdateContact(p)
    \/ \E p \in Procs : RemoveContact(p)
    \/ \E p \in Procs : SearchContacts(p)
    \/ \E p \in Procs : UpcomingBirthdays(p)
    \/ Tick
    \/ CacheDown
    \/ CacheBack

Spec == Init /\ [][Next]_vars

\* The /auth routes and GET /users/me, with the cache backend reachable.
NextAuth ==
    \/ \E p \in Procs : SignupStart(p)
    \/ \E p \in Procs : SignupFinish(p)
    \/ SendEmail
    \/ \E p \in Procs : LoginStart(p)
    \/ \E p \in Procs : LoginFinish(p)
    \/ \E p \in Procs : RefreshStart(p)
    \/ \E p \in Procs : RefreshFinish(p)
    \/ \E p \in Procs : ConfirmStart(p)
    \/ \E p \in Procs : ConfirmFinish(p)
    \/ \E p \in Procs : RequestEmail(p)
    \/ \E p \in Procs : Me(p)
    \/ Tick

AuthSpec == Init /\ [][NextAuth]_vars

\* The /auth routes while rows of table "users" may be deleted from outside.
NextAdmin ==
    \/ \E p \in Procs : SignupStart(p)
    \/ \E p \in Procs : SignupFinish(p)
    \/ SendEmail
    \/ \E p \in Procs : LoginStart(p)
    \/ \E p \in Procs : LoginFinish(p)
    \/ \E p \in Procs : RefreshStart(p)
    \/ \E p \in Procs : RefreshFinish(p)
    \/ \E p \in Procs : ConfirmStart(p)
    \/ \E p \in Procs : ConfirmFinish(p)
    \/ DeleteUser

AdminSpec == Init /\ [][NextAdmin]_vars

\* Every operation that writes a row of table "users": the /auth routes and the
\* avatar update.
NextAccount ==
    \/ \E p \in Procs : SignupStart(p)
    \/ \E p \in Procs : SignupFinish(p)
    \/ SendEmail
    \/ \E p \in Procs : LoginStart(p)
    \/ \E p \in Procs : LoginFinish(p)
    \/ \E p \in Procs : RefreshStart(p)
    \/ \E p \in Procs : RefreshFinish(p)
    \/ \E p \in Procs : ConfirmStart(p)
    \/ \E p \in Procs : ConfirmFinish(p)
    \/ \E p \in Procs : RequestEmail(p)
    \/ \E p \in Procs : AvatarStart(p)
    \/ \E p \in Procs : AvatarFinish(p)

AccountSpec == Init /\ [][NextAccount]_vars

\* The routes behind the current-user resolver and what leads to them, one request
\* at a time, while the cache backend comes and goes.
NextSession ==
    \/ \E p \in Procs : SignupStart(p)
    \/ \E p \in Procs : SignupFinish(p)
    \/ SendEmail
    \/ \E p \in Procs : LoginStart(p)
    \/ \E p \in Procs : LoginFinish(p)
    \/ \E p \in Procs : ConfirmStart(p)
    \/ \E p \in Procs : ConfirmFinish(p)
    \/ \E p \in Procs : Me(p)
    \/ \E p \in Procs : AvatarStart(p)
    \/ \E p \in Procs : AvatarFinish(p)
    \/ Tick
    \/ CacheDown
    \/ CacheBack

SessionSpec == InitSerial /\ [][NextSession]_vars

\* The /contact routes of two logged-in users, one request at a time.
NextContacts ==
    \/ \E p \in Procs : CreateContact(p)
    \/ \E p \in Procs : ReadContacts(p)
    \/ \E p \in Procs : ReadContact(p)
    \/ \E p \in Procs : UpdateContact(p)
    \/ \E p \in Procs : RemoveContact(p)
    \/ \E p \in Procs : SearchContacts(p)
    \/ \E p \in Procs : UpcomingBirthdays(p)

ContactSpec == InitContacts /\ [][NextContacts]_vars

\* ------------------------------------------------------------------ claims
\* The answered request is a refresh_token call.
AnsweredRefresh == last.pc = "done" /\ last.op = "refresh"

NoTokenPair(resp) == resp.access_token = NoToken /\ resp.refresh_token = NoToken

\* C1: refresh rotation. Once refresh_token presented with rt1 has succeeded and
\* returned a new refresh token rt2, every refresh_token call that starts later and
\* presents rt1 is answered 401 and returns no token pair.
C1_RefreshRotation ==
    (AnsweredRefresh /\ last.afterRotation) =>
        /\ last.resp.status = HTTP_401_UNAUTHORIZED
        /\ NoTokenPair(last.resp)

\* C1 witness: a refresh token that an earlier refresh had replaced was presented
\* again and the call was answered.
C1_Witness ==
    /\ AnsweredRefresh /\ last.afterRotation
    /\ last.token \in rotated
    /\ last.resp.detail = INVALID_REFRESH_TOKEN

\* C2: a refresh_token call whose validly signed refresh token differs from the token
\* stored on the subject's row is answered 401 without a token pair, and its commit
\* leaves the stored refresh token null.
C2_MismatchForcesLogout ==
    [][\A p \in Procs :
        (/\ req[p].pc = "read" /\ req[p].op = "refresh"
         /\ req[p].user # NoUser /\ req[p].user.refresh_token # req[p].token
         /\ req'[p].pc = "idle")
        => (/\ last'.resp.status = HTTP_401_UNAUTHORIZED
            /\ NoTokenPair(last'.resp)
            /\ users'[req[p].email].refresh_token = NoToken)]_vars

\* C2 witness: a call presenting a token other than the stored, non-null one was
\* rejected and the row now holds no refresh token.
C2_Witness ==
    /\ AnsweredRefresh
    /\ last.user # NoUser
    /\ last.user.refresh_token # NoToken
    /\ last.user.refresh_token # last.token
    /\ last.resp.detail = INVALID_REFRESH_TOKEN
    /\ users[last.email].refresh_token = NoToken

\* C3: a refresh_token call whose validly signed refresh token names a subject with
\* no row is answered 401, as any revoked token is, and leaves table "users" as it was
\* (the original statement; the code raises on update_token(None, None, db)).
C3_AbsentUserShortCircuits ==
    (AnsweredRefresh /\ last.email # "" /\ last.user = NoUser) =>
        /\ last.resp.status = HTTP_401_UNAUTHORIZED
        /\ last.resp.detail = INVALID_REFRESH_TOKEN

\* C4: single active refresh token. The token stored on a row is null or the one
\* returned by the latest successful login or refresh of that user, and a refresh_token
\* call succeeds only when it presents the token that was the latest one when it
\* started; every other refresh token of the user is rejected.
C4_SingleActiveRefreshToken ==
    /\ \A e \in Emails : users[e].refresh_token \in {NoToken, lastIssued[e]}
    /\ (AnsweredRefresh /\ last.resp.status = HTTP_200_OK) =>
           /\ last.lastAtStart # NoToken
           /\ last.token = last.lastAtStart
    /\ (AnsweredRefresh /\ last.email # "" /\ last.token # last.lastAtStart) =>
           /\ last.resp.status = HTTP_401_UNAUTHORIZED
           /\ NoTokenPair(last.resp)

\* C4 witness: a refresh token issued by an earlier login was presented after a newer
\* login had issued another one, and was rejected.
C4_Witness ==
    /\ AnsweredRefresh
    /\ last.token.sig = "valid" /\ last.token.kind = "refresh"
    /\ last.lastAtStart # NoToken
    /\ last.token # last.lastAtStart
    /\ last.token \notin rotated
    /\ last.resp.status = HTTP_401_UNAUTHORIZED

\* The answered request is a login with the password the account was created with.
AnsweredGoodLogin ==
    /\ last.pc = "done" /\ last.op = "login"
    /\ last.user # NoUser
    /\ verify_password(last.password, last.user.password)

\* C5: signup creates the user with confirmed = false; a login with the correct
\* password that starts before confirmed_email has succeeded for the email is answered
\* 401 "email not confirmed" without tokens, and one that starts after it is answered
\* with an access/refresh token pair of that user.
C5_LoginGatedByConfirmation ==
    /\ (last.pc = "done" /\ last.op = "signup" /\ last.resp.status = HTTP_201_CREATED) =>
           ~last.resp.user.confirmed
    /\ (AnsweredGoodLogin /\ ~last.afterConfirm) =>
           /\ last.resp.status = HTTP_401_UNAUTHORIZED
           /\ last.resp.detail = EMAIL_NOT_CONFIRMED
           /\ NoTokenPair(last.resp)
    /\ (AnsweredGoodLogin /\ last.afterConfirm) =>
           /\ last.resp.status = HTTP_201_CREATED
           /\ last.resp.access_token = MkToken(last.email, "access",
                                                last.resp.access_token.iat,
                                                ACCESS_EXPIRE_SECONDS)
           /\ last.resp.refresh_token = MkToken(last.email, "refresh",
                                                 last.resp.refresh_token.iat,
                                                 REFRESH_EXPIRE_SECONDS)

\* C5 witness: a login with the correct password succeeded after the confirmation.
C5_Witness ==
    /\ AnsweredGoodLogin /\ last.afterConfirm
    /\ last.email \in confirmedOK
    /\ last.resp.status = HTTP_201_CREATED
    /\ last.resp.refresh_token # NoToken

\* The kind of token each token-taking operation expects.
ExpectedKind(op) ==
    IF op = "refresh" THEN "refresh" ELSE IF op = "confirm" THEN "email" ELSE "access"

TokenOps == {"refresh", "confirm", "me", "avatar"}

\* C6: token kind is enforced at every decode. A request that presents a token of
\* another kind than its operation expects (refresh_token, confirmed_email, the
\* current-user resolver of /users/me) is answered 401 in the step that decodes it,
\* and that step changes neither the user table, the cache, the issued tokens nor the
\* mail queue; no such request ever gets past the decode.
C6_TokenKindEnforced ==
    [][/\ \A p \in Procs :
            (req'[p].pc = "read" /\ req'[p].op \in TokenOps)
                => req'[p].token.kind = ExpectedKind(req'[p].op)
       /\ (/\ last' # last
           /\ last'.op \in TokenOps
           /\ last'.token.kind # ExpectedKind(last'.op))
          => (/\ last'.resp.status = HTTP_401_UNAUTHORIZED
              /\ NoTokenPair(last'.resp)
              /\ last'.resp.user = NoUser
              /\ UNCHANGED <<users, cache, issued, mailq, lastIssued, confirmedOK>>)]_vars

\* C6 witness: a validly signed access token was presented to refresh_token and the
\* call was answered.
C6_Witness ==
    /\ AnsweredRefresh
    /\ last.token.sig = "valid"
    /\ last.token.kind = "access"
    /\ now <= last.token.exp
    /\ last.resp.status = HTTP_401_UNAUTHORIZED

\* The cache with no key in it.
EmptyCache == [k \in Emails |-> NoEntry]

\* The authorization outcome of the resolver: the identity it accepts, or a rejection.
Outcome(res) == IF res.ok THEN res.user.email ELSE "rejected"

\* C7: for every valid access token the resolver's authorization outcome is the same
\* whether the session cache is as it is, empty, or unreachable.
C7_CacheNeverChangesOutcome ==
    \A e \in Emails :
        LET tok == create_access_token(e) IN
        /\ Outcome(resolve(tok, cache, TRUE)) = Outcome(resolve(tok, EmptyCache, TRUE))
        /\ Outcome(resolve(tok, cache, TRUE)) = Outcome(resolve(tok, cache, FALSE))

\* C7 witness: the resolver answered a valid token from a cache entry that no longer
\* equals the row in the user table.
C7_Witness ==
    /\ last.pc = "done" /\ last.op = "me"
    /\ last.fromCache
    /\ last.resp.status = HTTP_200_OK
    /\ last.resp.user # users[last.token.sub]

\* C8: the resolver never returns a cached snapshot older than 300 seconds (the
\* original statement; an avatar update cut between set and expire leaves a key
\* without expiry).
C8_NoSnapshotOlderThanTTL ==
    (last.pc = "done" /\ last.op \in {"me", "avatar"} /\ last.fromCache)
        => last.age <= CACHE_TTL

\* C9: a request that finds the cache backend unreachable is answered as with a
\* working cache: an avatar update whose bearer token the resolver accepted is
\* answered 200 with the updated user (the original statement; cache.set raises).
C9_CacheOutageNeverFails ==
    (/\ last.pc = "done" /\ last.op \in {"me", "avatar"}
     /\ ~last.cacheWasUp
     /\ last.user # NoUser)
        => /\ last.resp.status = HTTP_200_OK
           /\ last.resp.user.email = last.user.email

\* C10: every failing login is answered alike, with the status and detail an unknown
\* email gets (the original statement; an unconfirmed account gets another detail).
C10_LoginFailuresAlike ==
    (last.pc = "done" /\ last.op = "login" /\ last.resp.status # HTTP_201_CREATED)
        => /\ last.resp.status = HTTP_401_UNAUTHORIZED
           /\ last.resp.detail = INCORRECT_EMAIL_PASSWORD

\* C11: the confirmed flag is monotonic. A row inserted by signup has confirmed =
\* false, and no step of signup, login, refresh_token, confirmed_email, request_email
\* or the avatar update takes the confirmed flag of a row from true back to false.
C11_ConfirmedMonotonic ==
    [][\A e \in Emails :
        /\ (users[e] = NoUser /\ users'[e] # NoUser) => ~users'[e].confirmed
        /\ (users[e] # NoUser /\ users[e].confirmed) =>
               (users'[e].id = users[e].id /\ users'[e].confirmed)]_vars

\* C11 witness: a confirmed user has logged in and updated the avatar, and the row is
\* still confirmed.
C11_Witness ==
    /\ last.pc = "done" /\ last.op = "avatar"
    /\ last.resp.status = HTTP_200_OK
    /\ last.email \in confirmedOK
    /\ users[last.email].confirmed
    /\ users[last.email].refresh_token # NoToken
    /\ users[last.email].avatar = last.url

\* C12: user email is unique, and under any interleaving of signups, two concurrent
\* ones for the same email included, a signup for an email that is registered when it
\* writes is answered 409 "account exists" and creates no user (the original
\* statement; the signup that loses the race is stopped by the unique constraint, not
\* by the existence check, and is answered 500).
C12_ConcurrentSignupConflict ==
    /\ \A e1, e2 \in Emails :
           (users[e1] # NoUser /\ users[e2] # NoUser /\ e1 # e2) =>
               (users[e1].email # users[e2].email /\ users[e1].id # users[e2].id)
    /\ (last.pc = "done" /\ last.op = "signup" /\ last.resp.status # HTTP_201_CREATED) =>
           /\ last.resp.status = HTTP_409_CONFLICT
           /\ last.resp.detail = ACCOUNT_EXIST
           /\ last.resp.user = NoUser

\* The step answers a request to one of the routes ops, handled in one piece.
Answered(ops) ==
    /\ nreq' = nreq + 1
    /\ req' = req
    /\ last'.pc = "done"
    /\ last'.op \in ops

\* The user that the resolver handed to the route accepted by it.
Accepted(r) == r.user # NoUser /\ r.resp.status # HTTP_401_UNAUTHORIZED

\* C13: per-user isolation of contacts. A list, get, update, remove, search or
\* upcoming-birthdays request of user u returns only contacts with user_id = u.id and
\* leaves every contact of another user as it was; a contact id owned by another user
\* is answered like an id that does not exist, 404 "Contact not found", and the table
\* is unchanged.
C13_ContactIsolation ==
    [][Answered({"read_contacts", "read_contact", "update_contact", "remove_contact",
                 "search_contacts", "upcoming_birthdays"}) =>
        LET u == last'.user IN
        /\ \A i \in ContactIds :
               (contacts[i] # NoContact /\ contacts[i].user_id # u.id) =>
                   contacts'[i] = contacts[i]
        /\ last'.resp.contact # NoContact => last'.resp.contact.user_id = u.id
        /\ \A k \in 1..Len(last'.resp.contacts) : last'.resp.contacts[k].user_id = u.id
        /\ (/\ last'.op \in {"read_contact", "update_contact", "remove_contact"}
            /\ Accepted(last')
            /\ Row(last'.contact_id).user_id # u.id)
           => /\ last'.resp.status = HTTP_404_NOT_FOUND
              /\ last'.resp.detail = "Contact not found"
              /\ last'.resp.contact = NoContact
              /\ contacts' = contacts]_vars

\* C13 witness: a user asked to remove a contact that another user owns, was answered
\* 404, and the contact is still there.
C13_Witness ==
    /\ last.pc = "done" /\ last.op = "remove_contact"
    /\ Accepted(last)
    /\ Row(last.contact_id) # NoContact
    /\ Row(last.contact_id).user_id # last.user.id
    /\ last.resp.status = HTTP_404_NOT_FOUND

\* The elements of a list.
Range(seq) == {seq[k] : k \in 1..Len(seq)}

\* The dates of today and of the 7 days after it.
NextSevenDays == {timedelta_add(today, k) : k \in 0..UPCOMING_DAYS}

\* C14: upcoming_birthdays returns exactly the caller's contacts whose birthday month
\* and day are those of one of the days today .. today + 7, whatever today is (the
\* original statement; in the last week of December the upper end of the string
\* window is a January date, below the lower end, and the result is empty).
C14_UpcomingBirthdaysWindow ==
    [][(Answered({"upcoming_birthdays"}) /\ Accepted(last')) =>
        /\ last'.resp.status = HTTP_200_OK
        /\ Range(last'.resp.contacts) =
               {c \in Stored : c.user_id = last'.user.id /\ c.birthday \in NextSevenDays}]_vars

\* The first n elements of a list, or all of it.
Take(seq, n) == SubSeq(seq, 1, IF n < Len(seq) THEN n ELSE Len(seq))

\* A list without its first n elements.
Drop(seq, n) == SubSeq(seq, n + 1, Len(seq))

\* C15: read_contacts called with (skip, limit) by user u is answered with u's contacts,
\* the first skip of them left out and at most limit of them returned (the original
\* statement; the route passes skip, limit, db, user to a function that takes limit,
\* offset, user, session, which reads user.id from the database session and raises).
C15_ReadContactsSkipLimit ==
    [][(Answered({"read_contacts"}) /\ Accepted(last')) =>
        /\ last'.resp.status = HTTP_201_CREATED
        /\ last'.resp.contacts =
               Take(Drop(ById({c \in Stored : c.user_id = last'.user.id}), last'.skip),
                    last'.limit)]_vars

\* C16: remove_contact. When the user owns a contact with the id, the row is deleted
\* and committed exactly once, the removed contact is returned and every later
\* get_contact for the id finds nothing; when there is no such contact the answer is
\* 404, nothing is deleted or committed and the table is unchanged.
C16_RemoveContact ==
    /\ [][(Answered({"remove_contact"}) /\ Accepted(last')) =>
            LET id == last'.contact_id
                u == last'.user
            IN
            IF Row(id) # NoContact /\ Row(id).user_id = u.id
            THEN /\ last'.resp.status = HTTP_200_OK
                 /\ last'.resp.contact = Row(id)
                 /\ last'.resp.deleted = 1 /\ last'.resp.committed = 1
                 /\ contacts' = [contacts EXCEPT ![id] = NoContact]
            ELSE /\ last'.resp.status = HTTP_404_NOT_FOUND
                 /\ last'.resp.contact = NoContact
                 /\ last'.resp.deleted = 0 /\ last'.resp.committed = 0
                 /\ contacts' = contacts]_vars
    /\ [][(Answered({"read_contact"}) /\ Accepted(last') /\ last'.contact_id \in removed)
            => (last'.resp.status = HTTP_404_NOT_FOUND /\ last'.resp.contact = NoContact)]_vars
    /\ [](\A i \in removed : \A e \in Emails : get_contact(i, DbSession, users[e]) = NoContact)

\* C16 witness: a contact was removed by its owner and a later get for its id was
\* answered 404.
C16_Witness ==
    /\ last.pc = "done" /\ last.op = "read_contact"
    /\ Accepted(last)
    /\ last.contact_id \in removed
    /\ last.resp.status = HTTP_404_NOT_FOUND

\* C17: update_contact. When the user owns a contact with the id, every field of the
\* body is written to it, its id and user_id stay, the updated contact is returned and
\* no other contact changes; when there is no such contact the answer is 404 and the
\* table is unchanged (the original statement; a body whose email another contact
\* holds makes the commit fail on the unique constraint of contacts.email).
C17_UpdateContact ==
    [][(Answered({"update_contact"}) /\ Accepted(last')) =>
        LET id == last'.contact_id
            u == last'.user
            body == last'.body
        IN
        IF Row(id) # NoContact /\ Row(id).user_id = u.id
        THEN /\ last'.resp.status = HTTP_200_OK
             /\ contacts'[id] = [id |-> id, first_name |-> body.first_name,
                                 email |-> body.email, birthday |-> body.birthday,
                                 user_id |-> u.id]
             /\ last'.resp.contact = contacts'[id]
             /\ \A j \in ContactIds \ {id} : contacts'[j] = contacts[j]
        ELSE /\ last'.resp.status = HTTP_404_NOT_FOUND
             /\ last'.resp.contact = NoContact
             /\ contacts' = contacts]_vars

\* C18: a failure while sending the confirmation email never reaches the caller of
\* signup. The signup that inserts the user is answered 201 with the created user, and
\* whatever the send_email background task does afterwards (sent, connection error,
\* any other failure) changes neither that answer nor the user row.
C18_SendFailureNotPropagated ==
    /\ [][\A e \in Emails :
            (users[e] = NoUser /\ users'[e] # NoUser) =>
                /\ last'.op = "signup" /\ last'.email = e
                /\ last'.resp.status = HTTP_201_CREATED
                /\ last'.resp.user = users'[e]
                /\ e \in mailq']_vars
    /\ [][(mailq' # mailq /\ mailq' \subseteq mailq) =>
            (last' = last /\ users' = users)]_vars

\* C18 witness: the signup was answered 201, its send_email task has run without a
\* mail getting out, and the user row is there.
C18_Witness ==
    /\ last.pc = "done" /\ last.op = "signup"
    /\ last.resp.status = HTTP_201_CREATED
    /\ last.email \notin mailq
    /\ \A tok \in issued : ~(tok.kind = "email" /\ tok.sub = last.email)
    /\ users[last.email] = last.resp.user

\* C19: the known refresh race. refresh_token decides on the row its SELECT loaded and
\* overwrites the stored token without comparing again: a call whose loaded row held
\* the presented token succeeds and returns a rotated pair also when another call
\* presenting the same token has replaced the stored token in the meantime, so two
\* concurrent calls with the same stored token both succeed.
C19_RefreshRace ==
    [][\A p \in Procs :
        (/\ req[p].pc = "read" /\ req[p].op = "refresh"
         /\ req[p].user # NoUser /\ req[p].user.refresh_token = req[p].token
         /\ req'[p].pc = "idle")
        => (/\ last'.resp.status = HTTP_200_OK
            /\ last'.resp.access_token = create_access_token(req[p].email)
            /\ last'.resp.refresh_token = create_refresh_token(req[p].email)
            /\ users'[req[p].email].refresh_token = last'.resp.refresh_token)]_vars

\* C19 witness: two calls presented the same stored token; the first one rotated it,
\* and the second one, which had read the row before, succeeded as well.
C19_Witness ==
    /\ AnsweredRefresh
    /\ last.raced
    /\ ~last.afterRotation
    /\ last.token \in rotated
    /\ last.user.refresh_token = last.token
    /\ last.resp.status = HTTP_200_OK
    /\ last.resp.refresh_token # last.token

\* C20: after every successful login or refresh_token the refresh token stored on the
\* row is the one returned in the response, and a refresh_token call that presents the
\* returned token right after it, with no other request in between, succeeds.
C20_StoredEqualsReturned ==
    /\ [][\A p \in Procs :
            (/\ req[p].pc = "read" /\ req[p].op \in {"login", "refresh"}
             /\ req'[p].pc = "idle"
             /\ last'.resp.status \in {HTTP_200_OK, HTTP_201_CREATED})
            => (/\ last'.resp.refresh_token # NoToken
                /\ users'[req[p].email].refresh_token = last'.resp.refresh_token)]_vars
    /\ []((AnsweredRefresh /\ last.immediate) =>
            (/\ last.resp.status = HTTP_200_OK
             /\ last.resp.access_token # NoToken
             /\ last.resp.refresh_token # NoToken))

\* C20 witness: the refresh token a login returned was presented right after the login
\* and the call succeeded.
C20_Witness ==
    /\ AnsweredRefresh
    /\ last.immediate
    /\ last.user.refresh_token = last.token
    /\ last.resp.status = HTTP_200_OK
    /\ users[last.email].refresh_token = last.resp.refresh_token

\* C21: a row whose stored refresh token is not null is confirmed. No sequence of
\* signup, login, refresh_token, confirmed_email and request_email stores a refresh
\* token on a row with confirmed = false, and a login that fails (unknown email, wrong
\* password, unconfirmed user) leaves table "users", the stored refresh tokens
\* included, as it was.
C21_StoredTokenImpliesConfirmed ==
    /\ [](\A e \in Emails : users[e].refresh_token # NoToken => users[e].confirmed)
    /\ [][\A p \in Procs :
            (/\ req[p].pc = "read" /\ req[p].op = "login"
             /\ req'[p].pc = "idle"
             /\ last'.resp.status # HTTP_201_CREATED)
            => (/\ NoTokenPair(last'.resp)
                /\ users' = users)]_vars

\* C21 witness: a login with a wrong password failed for a confirmed user who holds a
\* stored refresh token, while the other user, not confirmed, holds none.
C21_Witness ==
    /\ last.pc = "done" /\ last.op = "login"
    /\ last.resp.status = HTTP_401_UNAUTHORIZED
    /\ last.user # NoUser
    /\ users[last.email].confirmed
    /\ users[last.email].refresh_token # NoToken
    /\ \E e \in Emails :
           users[e] # NoUser /\ ~users[e].confirmed /\ users[e].refresh_token = NoToken

====
